---------------------------- MODULE Spec2Model ----------------------------
(***************************************************************************)
(* A model of prsqlite's table B-tree cursor (src/src/cursor.rs:           *)
(* BtreeCursor, BtreePayload::load) and of its SQL mini-parser             *)
(* (src/src/parser.rs: parse_create_table, parse_select, parse_expr).      *)
(*                                                                         *)
(* Three specifications share the module:                                  *)
(*   SpecCursor  a cursor walking one table B-tree by repeated next()      *)
(*   SpecLoad    one BtreePayload::load call over a local payload and an   *)
(*               overflow chain                                            *)
(*   SpecParser  the parsers applied to byte inputs                        *)
(* Each one keeps the variables of the other two at their idle values.     *)
(***************************************************************************)
EXTENDS Integers, Sequences, FiniteSets, TLC

(***************************************************************************)
(* Bounds of the model.                                                    *)
(***************************************************************************)
\* pages of a table B-tree (interior and leaf pages together)
MaxPages == 4
\* cells of one leaf page
MaxCells == 2
\* next() calls answered None before the model stops calling
MaxNone == 2
\* get_page failures injected into one cursor's life
MaxFail == 1
\* bytes of a payload kept in the leaf page (payload.len() of load)
MaxLocal == 2
\* overflow pages of one payload
MaxChain == 2
\* payload bytes one overflow page reports
MaxSeg == 2
\* length of load's destination buffer
MaxDst == 3
\* columns of a CREATE TABLE statement, result columns of a SELECT
MaxCols == 2
\* spaces written before and after a comma
MaxWs == 2
MaxAtoms == 3

VARIABLES
  \* ---- the pager's table B-tree and the cursor (BtreeCursor) ----
  pages,            \* PageId -> page header and cells, as the page codec reports them
  current_page_id,  \* BtreeCursor.current_page_id
  current_page,     \* BtreeCursor.current_page: the id of the MemPage held
  idx_cell,         \* BtreeCursor.idx_cell
  parent_pages,     \* BtreeCursor.parent_pages: Seq of <<PageId, idx_cell>>
  cpc,              \* "idle" (between calls) | "in_next" (inside next()'s loop) | "off"
  ret,              \* what the last next() returned: "fresh" | "some" | "none" | "err"
  emitted,          \* history: the leaf cells <<page, idx>> returned as Some so far
  nNone,            \* history: number of next() calls that returned Ok(None)
  nFail,            \* history: number of get_page failures so far
  page_log,         \* the acquisitions and releases of pages in the last step, in order
  \* ---- one BtreePayload and one load call on it ----
  size,             \* BtreePayload.size
  local,            \* the bytes of local_payload_buffer[local_payload_range]
  overflow,         \* BtreePayload.overflow: the first overflow page, or NoPage
  ovf,              \* the pager's overflow pages: PageId -> [payload, next]
  arg_offset,       \* load's argument offset
  dst,              \* the caller's buffer (0 marks a byte load has not written)
  lpc,              \* "off" | "idle" | "loop" | "done"
  n_loaded,         \* load's n_loaded
  offset,           \* load's shadowed, advancing offset
  buf_len,          \* buf.len() of load's shrinking slice buf = &mut buf[n..]
  cur,              \* load's cur
  ov,               \* load's overflow: the next overflow page, or NoPage
  result,           \* load's return: Pending, Ok(n) or Err(message)
  fetched,          \* history: the overflow pages asked of get_page, in order
  ovf_log,          \* the acquisitions and releases of pages in the last step, in order
  called,           \* history: the row and the arguments of the last load call
  returned,         \* history: what the call before it left behind, if the last repeats it
  \* ---- the SQL parsers applied to one input ----
  input,            \* the bytes handed to the parsers, one character each
  stmt,             \* what the input was written from: the statement it renders
  ct_result,        \* parse_create_table(input): Pending, or what it returned
  sel_result,       \* parse_select(input): Pending, or what it returned
  expr_result       \* parse_expr(input): Pending, or what it returned

cursorVars == <<pages, current_page_id, current_page, idx_cell, parent_pages,
                cpc, ret, emitted, nNone, nFail, page_log>>

loadVars == <<size, local, overflow, ovf, arg_offset, dst, lpc, n_loaded,
              offset, buf_len, cur, ov, result, fetched, ovf_log, called,
              returned>>

parserVars == <<input, stmt, ct_result, sel_result, expr_result>>

vars == <<cursorVars, loadVars, parserVars>>

\* what each specification leaves alone
notCursor == <<loadVars, parserVars>>

notLoad == <<cursorVars, parserVars>>

notParser == <<cursorVars, loadVars>>

(***************************************************************************)
(* Helpers.                                                                *)
(***************************************************************************)
Min(a, b) == IF a <= b THEN a ELSE b

Max(a, b) == IF a >= b THEN a ELSE b

RECURSIVE SetToSeq(_)
\* the elements of a finite set of integers in increasing order
SetToSeq(S) ==
  IF S = {} THEN <<>>
  ELSE LET m == CHOOSE x \in S : \A y \in S : x <= y
       IN <<m>> \o SetToSeq(S \ {m})

RECURSIVE Flatten(_)
\* the concatenation of a sequence of sequences
Flatten(ss) == IF ss = <<>> THEN <<>> ELSE Head(ss) \o Flatten(Tail(ss))

IsPrefix(s, t) == Len(s) <= Len(t) /\ SubSeq(t, 1, Len(s)) = s

(***************************************************************************)
(* Table B-trees.  A page is what BtreePageHeader and the cell parsers     *)
(* report of it: is_leaf, n_cells, the child page id of every interior     *)
(* cell, and right_page_id.  Trees are built over page ids 1..n with the   *)
(* root at page 1; every ordered tree shape of at most MaxPages pages,     *)
(* with leaves of 0..MaxCells cells, occurs (an interior page with one     *)
(* child has n_cells = 0 and only its right_page_id).                      *)
(***************************************************************************)
\* what a cursor or a load call holds of the pager's pages, as events in
\* program order: "page" is a MemPage, the answer of Pager::get_page; "buffer"
\* is a PageBuffer, the answer of MemPage::buffer held in a local; "payload"
\* is the PageBuffer inside a BtreePayload.  A value is released where Rust
\* drops it: at drop(), at the end of its scope, or when it is assigned over.
Get(what, page) == [op |-> "get", what |-> what, page |-> page]

Release(what, page) == [op |-> "drop", what |-> what, page |-> page]

\* how many more values of a kind are held after the first k events of a
\* step's log than before the step
NHeld(log, k, what) ==
  Cardinality({i \in 1..k : log[i].what = what /\ log[i].op = "get"})
  - Cardinality({i \in 1..k : log[i].what = what /\ log[i].op = "drop"})

RootPage == 1

NoPage == 0

ParentMaps(n) == {par \in [2..n -> 1..n] : \A c \in 2..n : par[c] < c}

MkPages(n, par, nc) ==
  [p \in 1..n |->
     LET kids == SetToSeq({c \in 2..n : par[c] = p})
     IN IF kids = <<>>
        THEN [is_leaf |-> TRUE, n_cells |-> nc[p], cells |-> <<>>,
              right_page_id |-> NoPage]
        ELSE [is_leaf |-> FALSE, n_cells |-> Len(kids) - 1,
              cells |-> SubSeq(kids, 1, Len(kids) - 1),
              right_page_id |-> kids[Len(kids)]]]

Trees ==
  UNION {UNION {{MkPages(n, par, [p \in 1..n |-> IF p \in DOMAIN f THEN f[p] ELSE 0]) :
                   f \in [{p \in 1..n : \A c \in 2..n : par[c] # p} -> 0..MaxCells]} :
                par \in ParentMaps(n)} :
         n \in 1..MaxPages}

RECURSIVE InOrder(_, _)
\* the leaf cells <<page, idx>> of the subtree of page p, left to right:
\* the subtree of interior cell i before that of cell i+1, right_page_id's last
InOrder(pg, p) ==
  IF pg[p].is_leaf
  THEN [i \in 1..pg[p].n_cells |-> <<p, i - 1>>]
  ELSE Flatten([i \in 1..pg[p].n_cells |-> InOrder(pg, pg[p].cells[i])])
       \o InOrder(pg, pg[p].right_page_id)

\* R: the number of leaf cells of the tree
RowCount(pg) == Len(InOrder(pg, RootPage))

(***************************************************************************)
(* BtreeCursor::next, one action per turn of its loop.                     *)
(***************************************************************************)
\* mutant: the right_page_id slot is never taken
RightChildNever(h, idx) == FALSE

\* cursor.rs:138  !page_header.is_leaf() && self.idx_cell == page_header.n_cells()
RightChildPending(h, idx) == ~h.is_leaf /\ idx = h.n_cells

\* mutant: off by one, > for >=
PageExhaustedStrict(h, idx) == idx > h.n_cells

\* cursor.rs:143  self.idx_cell >= page_header.n_cells()
PageExhausted(h, idx) == idx >= h.n_cells

\* mutant: interior cells indexed from the last one
CellPageIdReversed(h, idx) == h.cells[h.n_cells - idx]

\* cursor.rs:165-167  BtreeInteriorTableCell::get(.., self.idx_cell).page_id()
CellPageId(h, idx) == h.cells[idx + 1]

\* mutant: the popped index plus two
AscendIdxPlusTwo(idx) == idx + 2

\* cursor.rs:192  self.idx_cell = idx_cell + 1
AscendIdx(idx) == idx + 1

\* the header next() reads: that of the page held in current_page
Header == pages[current_page]

\* cursor.rs:136 and 141, 144, 168  let buffer = self.current_page.buffer()
\* and drop(buffer), which comes before move_to_child and back_to_parent
BufferHolds == <<Get("buffer", current_page), Release("buffer", current_page)>>

\* mutant: the page the cursor leaves is released before get_page is called
PageSwitchReleaseFirst(page_id) ==
  <<Release("page", current_page), Get("page", page_id)>>

\* cursor.rs:178 and 191  self.current_page = self.pager.get_page(..)?: the
\* right-hand side is evaluated first, and the MemPage the field held is
\* dropped when the new one is assigned over it
PageSwitch(page_id) ==
  <<Get("page", page_id), Release("page", current_page)>>

\* mutant: the child's page id is stacked instead of the parent's
MoveToChildStacksChild(page_id, idx, ok) ==
  /\ parent_pages' = Append(parent_pages, <<page_id, idx>>)
  /\ current_page_id' = page_id
  /\ IF ok
     THEN /\ current_page' = page_id
          /\ idx_cell' = 0
          /\ cpc' = "in_next"
          /\ page_log' = BufferHolds \o PageSwitch(page_id)
          /\ UNCHANGED <<ret, nFail>>
     ELSE /\ nFail < MaxFail
          /\ current_page' = current_page
          /\ idx_cell' = idx
          /\ cpc' = "idle"
          /\ ret' = "err"
          /\ nFail' = nFail + 1
          /\ page_log' = BufferHolds
  /\ UNCHANGED <<pages, emitted, nNone>>
  /\ UNCHANGED notCursor

\* cursor.rs:174-181; ok = FALSE is get_page answering Err: the push and the
\* new current_page_id are already made, `?` returns before current_page and
\* idx_cell are assigned.  idx is the idx_cell the caller left.
MoveToChild(page_id, idx, ok) ==
  /\ parent_pages' = Append(parent_pages, <<current_page_id, idx>>)
  /\ current_page_id' = page_id
  /\ IF ok
     THEN /\ current_page' = page_id
          /\ idx_cell' = 0
          /\ cpc' = "in_next"
          /\ page_log' = BufferHolds \o PageSwitch(page_id)
          /\ UNCHANGED <<ret, nFail>>
     ELSE /\ nFail < MaxFail
          /\ current_page' = current_page
          /\ idx_cell' = idx
          /\ cpc' = "idle"
          /\ ret' = "err"
          /\ nFail' = nFail + 1
          /\ page_log' = BufferHolds
  /\ UNCHANGED <<pages, emitted, nNone>>
  /\ UNCHANGED notCursor

\* a caller calls next()
CallNext ==
  /\ cpc = "idle"
  /\ nNone < MaxNone
  /\ cpc' = "in_next"
  /\ page_log' = IF ret = "some"
                 THEN <<Release("payload", current_page)>>
                 ELSE <<>>
  /\ UNCHANGED <<pages, current_page_id, current_page, idx_cell, parent_pages,
                 ret, emitted, nNone, nFail>>
  /\ UNCHANGED notCursor

\* mutant: the right_page_id slot is not marked consumed before the descent
NextRightChildUnmarked ==
  /\ cpc = "in_next"
  /\ RightChildPending(pages[current_page], idx_cell)
  /\ \E ok \in BOOLEAN :
       MoveToChild(pages[current_page].right_page_id, idx_cell, ok)

\* cursor.rs:138-142
NextRightChild ==
  /\ cpc = "in_next"
  /\ RightChildPending(Header, idx_cell)
  /\ \E ok \in BOOLEAN :
       MoveToChild(Header.right_page_id, idx_cell + 1, ok)

\* mutant: the cursor rewinds to cell 0 when it reports the end
ReturnNoneRewind ==
  /\ cpc = "in_next"
  /\ ~RightChildPending(pages[current_page], idx_cell)
  /\ PageExhausted(pages[current_page], idx_cell)
  /\ parent_pages = <<>>
  /\ cpc' = "idle"
  /\ ret' = "none"
  /\ nNone' = nNone + 1
  /\ idx_cell' = 0
  /\ page_log' = BufferHolds
  /\ UNCHANGED <<pages, current_page_id, current_page, parent_pages,
                 emitted, nFail>>
  /\ UNCHANGED notCursor

\* cursor.rs:143-147 with back_to_parent's None arm (184-188): Ok(None)
ReturnNone ==
  /\ cpc = "in_next"
  /\ ~RightChildPending(Header, idx_cell)
  /\ PageExhausted(Header, idx_cell)
  /\ parent_pages = <<>>
  /\ cpc' = "idle"
  /\ ret' = "none"
  /\ nNone' = nNone + 1
  /\ page_log' = BufferHolds
  /\ UNCHANGED <<pages, current_page_id, current_page, idx_cell, parent_pages,
                 emitted, nFail>>
  /\ UNCHANGED notCursor

\* cursor.rs:143-147 with back_to_parent's Some arm (184-193)
NextAscend ==
  /\ cpc = "in_next"
  /\ ~RightChildPending(Header, idx_cell)
  /\ PageExhausted(Header, idx_cell)
  /\ parent_pages # <<>>
  /\ LET top == parent_pages[Len(parent_pages)]
     IN /\ parent_pages' = SubSeq(parent_pages, 1, Len(parent_pages) - 1)
        /\ current_page_id' = top[1]
        /\ \E ok \in BOOLEAN :
             IF ok
             THEN /\ current_page' = top[1]
                  /\ idx_cell' = AscendIdx(top[2])
                  /\ cpc' = "in_next"
                  /\ page_log' = BufferHolds \o PageSwitch(top[1])
                  /\ UNCHANGED <<ret, nFail>>
             ELSE /\ nFail < MaxFail
                  /\ current_page' = current_page
                  /\ idx_cell' = idx_cell
                  /\ cpc' = "idle"
                  /\ ret' = "err"
                  /\ nFail' = nFail + 1
                  /\ page_log' = BufferHolds
  /\ UNCHANGED <<pages, emitted, nNone>>
  /\ UNCHANGED notCursor

\* cursor.rs:148-163: the leaf cell idx_cell of the held page is returned
NextEmit ==
  /\ cpc = "in_next"
  /\ ~RightChildPending(Header, idx_cell)
  /\ ~PageExhausted(Header, idx_cell)
  /\ Header.is_leaf
  /\ emitted' = Append(emitted, <<current_page, idx_cell>>)
  /\ idx_cell' = idx_cell + 1
  /\ cpc' = "idle"
  /\ ret' = "some"
  /\ page_log' = <<Get("buffer", current_page),
                    Get("payload", current_page),
                    Release("buffer", current_page)>>
  /\ UNCHANGED <<pages, current_page_id, current_page, parent_pages, nNone, nFail>>
  /\ UNCHANGED notCursor

\* cursor.rs:164-170
NextDescend ==
  /\ cpc = "in_next"
  /\ ~RightChildPending(Header, idx_cell)
  /\ ~PageExhausted(Header, idx_cell)
  /\ ~Header.is_leaf
  /\ \E ok \in BOOLEAN :
       MoveToChild(CellPageId(Header, idx_cell), idx_cell, ok)

\* the idle values of the cursor's variables under the other specifications
CursorOff ==
  /\ pages = <<>>
  /\ current_page_id = NoPage
  /\ current_page = NoPage
  /\ idx_cell = 0
  /\ parent_pages = <<>>
  /\ cpc = "off"
  /\ ret = "fresh"
  /\ emitted = <<>>
  /\ nNone = 0
  /\ nFail = 0
  /\ page_log = <<>>

\* no load call: the rows of a cursor are counted from 1
NoCall == [row |-> 0]

\* the idle values of load's variables under the other specifications
LoadOff ==
  /\ size = 0
  /\ local = <<>>
  /\ overflow = NoPage
  /\ ovf = <<>>
  /\ arg_offset = 0
  /\ dst = <<>>
  /\ lpc = "off"
  /\ n_loaded = 0
  /\ offset = 0
  /\ buf_len = 0
  /\ cur = 0
  /\ ov = NoPage
  /\ result = [tag |-> "pending", n |-> 0, err |-> ""]
  /\ fetched = <<>>
  /\ ovf_log = <<>>
  /\ called = NoCall
  /\ returned = NoCall

\* the idle values of the parsers' variables under the other specifications
ParserOff ==
  /\ input = <<>>
  /\ stmt = [kind |-> "none"]
  /\ ct_result = [tag |-> "off"]
  /\ sel_result = [tag |-> "off"]
  /\ expr_result = [tag |-> "off"]

\* cursor.rs:123-132: BtreeCursor::new on the root page of a tree
InitCursor ==
  /\ pages \in Trees
  /\ current_page_id = RootPage
  /\ current_page = RootPage
  /\ idx_cell = 0
  /\ parent_pages = <<>>
  /\ cpc = "idle"
  /\ ret = "fresh"
  /\ emitted = <<>>
  /\ nNone = 0
  /\ nFail = 0
  /\ page_log = <<>>
  /\ LoadOff
  /\ ParserOff

NextCursor ==
  \/ CallNext
  \/ NextRightChild
  \/ ReturnNone
  \/ NextAscend
  \/ NextEmit
  \/ NextDescend

SpecCursor == InitCursor /\ [][NextCursor]_vars

(***************************************************************************)
(* BtreePayload::load: one action for the range check and the local copy   *)
(* (cursor.rs:59-83), one per turn of the overflow loop (84-107), one for  *)
(* the return (109).                                                       *)
(*                                                                         *)
(* The byte at logical position k of a payload (1-based, local bytes       *)
(* first, then the overflow pages in chain order) has value k, so a byte   *)
(* copied from the wrong place is a wrong value; 0 in dst is a byte load   *)
(* never wrote, -1 a byte read past the end of its source slice.           *)
(***************************************************************************)
\* the largest payload size: one byte more than the pages can hold
MaxSize == MaxLocal + MaxChain * MaxSeg + 1

\* the overflow loop is cut after this many fetches: only a chain that keeps
\* reporting empty pages gets that far
MaxFetch == MaxSize + 1

RECURSIVE SumTo(_, _)
SumTo(lens, k) == IF k = 0 THEN 0 ELSE lens[k] + SumTo(lens, k - 1)

\* n bytes whose values are their logical positions from + 1 .. from + n
Bytes(from, n) == [i \in 1..n |-> from + i]

NotWritten == 0

PastEnd == -1

\* mutant: off by one, > for >=
OutOfRangeStrict(off, sz) == off > sz

\* cursor.rs:60  offset >= self.size
OutOfRange(off, sz) == off >= sz

\* cursor.rs:68 (cur = 0) and 92  offset < cur + payload.len()
InSegment(off, c, seglen) == off < c + seglen

\* mutant: the copy takes what is left of the source, whatever room there is
CopyLenOfSource(seglen, local_offset, blen) == seglen - local_offset

\* cursor.rs:70 and 94  min(payload.len() - local_offset, buf.len())
CopyLen(seglen, local_offset, blen) == Min(seglen - local_offset, blen)

\* mutant: the loop ignores that the destination is full
LoopContinuesFullBuf(blen, c, sz) == c < sz

\* mutant: the loop goes on past the payload's size while there is room
LoopContinuesPastSize(blen, c, sz) == blen # 0

\* cursor.rs:84  !buf.is_empty() && cur < self.size
LoopContinues(blen, c, sz) == blen # 0 /\ c < sz

\* mutant: the copy starts at the head of the segment
CopiedFromHead(d, blen, seg, local_offset, n) ==
  LET at == Len(d) - blen
  IN [i \in 1..Len(d) |->
        IF i > at /\ i <= at + n
        THEN (IF i - at \in 1..Len(seg) THEN seg[i - at] ELSE PastEnd)
        ELSE d[i]]

\* cursor.rs:75 and 99  copy_nonoverlapping(payload[local_offset..], buf, n),
\* buf being the last blen bytes of the caller's buffer d
Copied(d, blen, seg, local_offset, n) ==
  LET at == Len(d) - blen
  IN [i \in 1..Len(d) |->
        IF i > at /\ i <= at + n
        THEN (IF local_offset + (i - at) \in 1..Len(seg)
              THEN seg[local_offset + (i - at)] ELSE PastEnd)
        ELSE d[i]]

Ok(n) == [tag |-> "Ok", n |-> n, err |-> ""]

Err(msg) == [tag |-> "Err", n |-> 0, err |-> msg]

Pending == [tag |-> "pending", n |-> 0, err |-> ""]

\* cursor.rs:59-83
LoadStart ==
  /\ lpc = "idle"
  /\ IF OutOfRange(arg_offset, size)
     THEN /\ result' = Err("offset exceeds payload size")
          /\ lpc' = "done"
          /\ UNCHANGED <<dst, n_loaded, offset, buf_len, cur, ov>>
     ELSE LET copies == InSegment(arg_offset, 0, Len(local))
              n == IF copies THEN CopyLen(Len(local), arg_offset, buf_len) ELSE 0
          IN /\ dst' = IF copies THEN Copied(dst, buf_len, local, arg_offset, n)
                       ELSE dst
             /\ n_loaded' = n_loaded + n
             /\ offset' = offset + n
             /\ buf_len' = buf_len - n
             /\ cur' = Len(local)
             /\ ov' = overflow
             /\ lpc' = "loop"
             /\ UNCHANGED result
  /\ UNCHANGED <<size, local, overflow, ovf, arg_offset, fetched, ovf_log,
                 called, returned>>
  /\ UNCHANGED notLoad

\* cursor.rs:87-107  `page` (line 87) and `buffer` (line 88) are locals of the
\* loop body: both are dropped where the body ends, `buffer` first, on line
\* 107 or on the `?` of lines 89-91, before the loop condition and the next
\* get_page
IterationHolds(page_id) ==
  <<Get("page", page_id), Get("buffer", page_id),
    Release("buffer", page_id), Release("page", page_id)>>

\* mutant: the page of an iteration is kept until load returns
LoadIterKeepsPage ==
  /\ lpc = "loop"
  /\ LoopContinues(buf_len, cur, size)
  /\ ov # NoPage
  /\ Len(fetched) < MaxFetch
  /\ LET seg == ovf[ov].payload
         copies == InSegment(offset, cur, Len(seg))
         local_offset == offset - cur
         n == IF copies THEN CopyLen(Len(seg), local_offset, buf_len) ELSE 0
     IN /\ fetched' = Append(fetched, ov)
        /\ dst' = IF copies THEN Copied(dst, buf_len, seg, local_offset, n)
                  ELSE dst
        /\ n_loaded' = n_loaded + n
        /\ offset' = offset + n
        /\ buf_len' = buf_len - n
        /\ cur' = cur + Len(seg)
        /\ ov' = ovf[ov].next
        /\ ovf_log' = <<Get("page", ov), Get("buffer", ov), Release("buffer", ov)>>
  /\ UNCHANGED <<size, local, overflow, ovf, arg_offset, lpc, result, called,
                 returned>>
  /\ UNCHANGED notLoad

\* mutant: the handle's overflow head moves along the chain as it is walked
LoadIterAdvancesHandle ==
  /\ lpc = "loop"
  /\ LoopContinues(buf_len, cur, size)
  /\ ov # NoPage
  /\ Len(fetched) < MaxFetch
  /\ LET seg == ovf[ov].payload
         copies == InSegment(offset, cur, Len(seg))
         local_offset == offset - cur
         n == IF copies THEN CopyLen(Len(seg), local_offset, buf_len) ELSE 0
     IN /\ fetched' = Append(fetched, ov)
        /\ dst' = IF copies THEN Copied(dst, buf_len, seg, local_offset, n)
                  ELSE dst
        /\ n_loaded' = n_loaded + n
        /\ offset' = offset + n
        /\ buf_len' = buf_len - n
        /\ cur' = cur + Len(seg)
        /\ ov' = ovf[ov].next
        /\ overflow' = ovf[ov].next
        /\ ovf_log' = IterationHolds(ov)
  /\ UNCHANGED <<size, local, ovf, arg_offset, lpc, result, called, returned>>
  /\ UNCHANGED notLoad

\* cursor.rs:84-107, get_page and OverflowPage::parse answering Ok
LoadIter ==
  /\ lpc = "loop"
  /\ LoopContinues(buf_len, cur, size)
  /\ ov # NoPage
  /\ Len(fetched) < MaxFetch
  /\ LET seg == ovf[ov].payload
         copies == InSegment(offset, cur, Len(seg))
         local_offset == offset - cur
         n == IF copies THEN CopyLen(Len(seg), local_offset, buf_len) ELSE 0
     IN /\ fetched' = Append(fetched, ov)
        /\ dst' = IF copies THEN Copied(dst, buf_len, seg, local_offset, n)
                  ELSE dst
        /\ n_loaded' = n_loaded + n
        /\ offset' = offset + n
        /\ buf_len' = buf_len - n
        /\ cur' = cur + Len(seg)
        /\ ov' = ovf[ov].next
        /\ ovf_log' = IterationHolds(ov)
  /\ UNCHANGED <<size, local, overflow, ovf, arg_offset, lpc, result, called,
                 returned>>
  /\ UNCHANGED notLoad

\* cursor.rs:85-86  overflow is None: "overflow page is not found"
LoadTruncated ==
  /\ lpc = "loop"
  /\ LoopContinues(buf_len, cur, size)
  /\ ov = NoPage
  /\ result' = Err("overflow page is not found")
  /\ lpc' = "done"
  /\ ovf_log' = <<>>
  /\ UNCHANGED <<size, local, overflow, ovf, arg_offset, dst, n_loaded, offset,
                 buf_len, cur, ov, fetched, called, returned>>
  /\ UNCHANGED notLoad

\* cursor.rs:87 and 89-91  get_page or OverflowPage::parse answering Err
LoadFetchFail ==
  /\ lpc = "loop"
  /\ LoopContinues(buf_len, cur, size)
  /\ ov # NoPage
  /\ Len(fetched) < MaxFetch
  /\ fetched' = Append(fetched, ov)
  /\ \E msg \in {"get_page", "parse overflow"} :
       /\ result' = Err(msg)
       /\ ovf_log' = IF msg = "get_page" THEN <<>> ELSE IterationHolds(ov)
  /\ lpc' = "done"
  /\ UNCHANGED <<size, local, overflow, ovf, arg_offset, dst, n_loaded, offset,
                 buf_len, cur, ov, called, returned>>
  /\ UNCHANGED notLoad

\* cursor.rs:84 and 109  the loop ends: Ok(n_loaded)
LoadReturn ==
  /\ lpc = "loop"
  /\ ~LoopContinues(buf_len, cur, size)
  /\ result' = Ok(n_loaded)
  /\ lpc' = "done"
  /\ ovf_log' = <<>>
  /\ UNCHANGED <<size, local, overflow, ovf, arg_offset, dst, n_loaded, offset,
                 buf_len, cur, ov, fetched, called, returned>>
  /\ UNCHANGED notLoad

\* a payload handle as next() builds it (cursor.rs:157-163) and the arguments
\* of one load call; lines 63-65 set n_loaded, offset and buf.  The chain's
\* last page names no next page, or (a corrupt file) a page of the chain.
InitLoad ==
  /\ CursorOff
  /\ ParserOff
  /\ \E L \in 0..MaxLocal, K \in 0..MaxChain :
       \E lens \in [1..K -> 0..MaxSeg], last \in {NoPage} \cup 1..K :
         /\ local = Bytes(0, L)
         /\ ovf = [p \in 1..K |->
                     [payload |-> Bytes(L + SumTo(lens, p - 1), lens[p]),
                      next |-> IF p < K THEN p + 1 ELSE last]]
         /\ overflow = IF K = 0 THEN NoPage ELSE 1
         /\ size \in L..MaxSize
  /\ arg_offset \in 0..(size + 1)
  /\ dst \in {[i \in 1..n |-> NotWritten] : n \in 0..MaxDst}
  /\ lpc = "idle"
  /\ n_loaded = 0
  /\ offset = arg_offset
  /\ buf_len = Len(dst)
  /\ cur = 0
  /\ ov = NoPage
  /\ result = Pending
  /\ fetched = <<>>
  /\ ovf_log = <<>>
  /\ called = NoCall
  /\ returned = NoCall

NextLoad ==
  \/ LoadStart
  \/ LoadIter
  \/ LoadTruncated
  \/ LoadFetchFail
  \/ LoadReturn

SpecLoad == InitLoad /\ [][NextLoad]_vars

\* the calls whose end is checked: the caller's buffer is empty or MaxDst long
InitLoadFair == InitLoad /\ Len(dst) \in {0, MaxDst}

\* load is one sequential call: a step that can be taken is taken
SpecLoadFair == InitLoadFair /\ [][NextLoad]_vars /\ WF_vars(NextLoad)

(***************************************************************************)
(* A cursor and the load calls of its caller: between a next() that        *)
(* returned Some and the following next(), the caller may call load on the *)
(* payload, and repeat the call (cursor.rs:317-347).  Every leaf holds one *)
(* row and every row carries the same payload: one local byte and a chain  *)
(* of overflow pages of one byte each, with a size the chain holds or one  *)
(* byte more than it holds.                                                *)
(***************************************************************************)
\* the trees walked here: one page fewer than elsewhere, one row a leaf
ReadTrees ==
  {t \in Trees : /\ Len(t) < MaxPages
                 /\ \A p \in 1..Len(t) : t[p].is_leaf => t[p].n_cells = 1}

\* the offsets the caller asks for: the first byte, the last, one past it
ReadOffsets == {0, size - 1, size}

\* the caller's buffers: one byte, or room for MaxDst
ReadBuffers == {[i \in 1..n |-> NotWritten] : n \in {1, MaxDst}}

\* cursor.rs:59 and 63-65: load is entered with an offset and a buffer;
\* n_loaded, offset and buf start from the arguments
Enter(off, d) ==
  /\ arg_offset' = off
  /\ offset' = off
  /\ dst' = d
  /\ buf_len' = Len(d)
  /\ n_loaded' = 0
  /\ result' = Pending
  /\ fetched' = <<>>
  /\ ovf_log' = <<>>
  /\ lpc' = "idle"
  /\ called' = [row |-> Len(emitted), offset |-> off, len |-> Len(d)]
  /\ UNCHANGED <<size, local, overflow, ovf, cur, ov>>
  /\ UNCHANGED notLoad

\* the caller calls load on the payload the last next() returned
CallLoad ==
  /\ cpc = "idle"
  /\ ret = "some"
  /\ lpc \in {"ready", "done"}
  /\ called = NoCall \/ called.row # Len(emitted)
  /\ returned' = NoCall
  /\ \E off \in ReadOffsets, d \in ReadBuffers : Enter(off, d)

\* the caller repeats its load on the same payload, with the same offset and
\* a fresh buffer of the same length
CallLoadAgain ==
  /\ cpc = "idle"
  /\ ret = "some"
  /\ lpc = "done"
  /\ called # NoCall /\ called.row = Len(emitted)
  /\ returned = NoCall
  /\ returned' = [result |-> result, fetched |-> fetched, dst |-> dst]
  /\ Enter(called.offset, [i \in 1..called.len |-> NotWritten])

\* cursor.rs:123-132 for the cursor, 157-163 for the payload of its rows
InitRead ==
  /\ pages \in ReadTrees
  /\ current_page_id = RootPage
  /\ current_page = RootPage
  /\ idx_cell = 0
  /\ parent_pages = <<>>
  /\ cpc = "idle"
  /\ ret = "fresh"
  /\ emitted = <<>>
  /\ nNone = 0
  /\ nFail = 0
  /\ page_log = <<>>
  /\ local = Bytes(0, 1)
  /\ ovf = [p \in 1..MaxChain |->
              [payload |-> Bytes(p, 1),
               next |-> IF p < MaxChain THEN p + 1 ELSE NoPage]]
  /\ overflow = 1
  /\ size \in {1 + MaxChain, 2 + MaxChain}
  /\ arg_offset = 0
  /\ dst = <<>>
  /\ lpc = "ready"
  /\ n_loaded = 0
  /\ offset = 0
  /\ buf_len = 0
  /\ cur = 0
  /\ ov = NoPage
  /\ result = Pending
  /\ fetched = <<>>
  /\ ovf_log = <<>>
  /\ called = NoCall
  /\ returned = NoCall
  /\ ParserOff

\* load borrows the payload, and the payload the cursor: next() cannot be
\* called before load has returned
ReadNext == lpc \notin {"idle", "loop"} /\ NextCursor

NextRead ==
  \/ ReadNext
  \/ CallLoad
  \/ CallLoadAgain
  \/ NextLoad

SpecRead == InitRead /\ [][NextRead]_vars

(***************************************************************************)
(* The tokenizer (crate::token::get_token_no_space), from its contract:    *)
(* it skips leading whitespace and answers the token with the number of    *)
(* bytes consumed, whitespace included, or None at the end of the input    *)
(* or at a byte that starts no token.  Bytes are one-character strings.    *)
(***************************************************************************)
Lower == <<"a", "b", "c", "d", "e", "f", "g", "h", "i", "j", "k", "l", "m",
           "n", "o", "p", "q", "r", "s", "t", "u", "v", "w", "x", "y", "z">>

Upper == <<"A", "B", "C", "D", "E", "F", "G", "H", "I", "J", "K", "L", "M",
           "N", "O", "P", "Q", "R", "S", "T", "U", "V", "W", "X", "Y", "Z">>

Digits == <<"0", "1", "2", "3", "4", "5", "6", "7", "8", "9">>

Range(f) == {f[i] : i \in DOMAIN f}

Spaces == {" ", "\t", "\n"}

IdentStart == Range(Lower) \cup Range(Upper) \cup {"_"}

IdentChars == IdentStart \cup Range(Digits)

\* ASCII case folding of one byte
ToLower(c) ==
  IF c \in Range(Upper) THEN Lower[CHOOSE i \in DOMAIN Upper : Upper[i] = c] ELSE c

LowerBytes(w) == [i \in 1..Len(w) |-> ToLower(w[i])]

DigitVal(c) == (CHOOSE i \in DOMAIN Digits : Digits[i] = c) - 1

RECURSIVE IntVal(_)
\* the value of a run of decimal digits
IntVal(ds) ==
  IF ds = <<>> THEN 0
  ELSE 10 * IntVal(SubSeq(ds, 1, Len(ds) - 1)) + DigitVal(ds[Len(ds)])

RECURSIVE RunEnd(_, _, _)
\* the first index k >= from with inp[k] outside set, or Len(inp) + 1
RunEnd(inp, from, set) ==
  IF from > Len(inp) \/ inp[from] \notin set THEN from
  ELSE RunEnd(inp, from + 1, set)

Keywords ==
  <<[word |-> <<"c", "r", "e", "a", "t", "e">>, type |-> "Create"],
    [word |-> <<"t", "a", "b", "l", "e">>, type |-> "Table"],
    [word |-> <<"s", "e", "l", "e", "c", "t">>, type |-> "Select"],
    [word |-> <<"f", "r", "o", "m">>, type |-> "From"],
    [word |-> <<"w", "h", "e", "r", "e">>, type |-> "Where"],
    [word |-> <<"p", "r", "i", "m", "a", "r", "y">>, type |-> "Primary"],
    [word |-> <<"k", "e", "y">>, type |-> "Key"],
    [word |-> <<"n", "u", "l", "l">>, type |-> "Null"]>>

\* a word is a keyword under ASCII case folding, or else an identifier
WordType(w) ==
  IF \E i \in DOMAIN Keywords : Keywords[i].word = LowerBytes(w)
  THEN Keywords[CHOOSE i \in DOMAIN Keywords : Keywords[i].word = LowerBytes(w)].type
  ELSE "Identifier"

Token(type, text, value) == [type |-> type, text |-> text, value |-> value]

SomeToken(n, token) == [some |-> TRUE, n |-> n, token |-> token]

NoToken == [some |-> FALSE, n |-> 0, token |-> Token("None", <<>>, 0)]

get_token_no_space(inp) ==
  LET s == RunEnd(inp, 1, Spaces)
      two == s < Len(inp) /\ inp[s + 1] = "="
  IN IF s > Len(inp) THEN NoToken
     ELSE CASE inp[s] = "(" -> SomeToken(s, Token("LeftParen", <<>>, 0))
            [] inp[s] = ")" -> SomeToken(s, Token("RightParen", <<>>, 0))
            [] inp[s] = "," -> SomeToken(s, Token("Comma", <<>>, 0))
            [] inp[s] = "*" -> SomeToken(s, Token("Asterisk", <<>>, 0))
            [] inp[s] = "=" -> SomeToken(s, Token("Eq", <<>>, 0))
            [] inp[s] = "!" -> IF two THEN SomeToken(s + 1, Token("Ne", <<>>, 0))
                               ELSE NoToken
            [] inp[s] = ">" -> IF two THEN SomeToken(s + 1, Token("Ge", <<>>, 0))
                               ELSE SomeToken(s, Token("Gt", <<>>, 0))
            [] inp[s] = "<" -> IF two THEN SomeToken(s + 1, Token("Le", <<>>, 0))
                               ELSE SomeToken(s, Token("Lt", <<>>, 0))
            [] inp[s] \in Range(Digits) ->
                 LET e == RunEnd(inp, s, Range(Digits))
                 IN SomeToken(e - 1, Token("Integer", <<>>, IntVal(SubSeq(inp, s, e - 1))))
            [] inp[s] \in IdentStart ->
                 LET e == RunEnd(inp, s, IdentChars)
                     w == SubSeq(inp, s, e - 1)
                 IN SomeToken(e - 1, Token(WordType(w), w, 0))
            [] OTHER -> NoToken

(***************************************************************************)
(* parse_create_table (parser.rs:51-148).                                  *)
(***************************************************************************)
\* &input[n..]
Drop(inp, n) == SubSeq(inp, n + 1, Len(inp))

\* parser.rs:98-109  CaseInsensitiveBytes::equal_to_lower_bytes
DataTypeOf(text) ==
  LET l == LowerBytes(text)
  IN CASE l = <<"i", "n", "t", "e", "g", "e", "r">> -> "Integer"
       [] l = <<"r", "e", "a", "l">> -> "Real"
       [] l = <<"t", "e", "x", "t">> -> "Text"
       [] l = <<"b", "l", "o", "b">> -> "Blob"
       [] OTHER -> "unknown"

ColumnDef(name, data_type, primary_key) ==
  [name |-> name, data_type |-> data_type, primary_key |-> primary_key]

CtOk(n, table_name, columns) ==
  [tag |-> "Ok", n |-> n, err |-> "", table_name |-> table_name, columns |-> columns]

CtErr(msg) ==
  [tag |-> "Err", n |-> 0, err |-> msg, table_name |-> <<>>, columns |-> <<>>]

\* a slice index past the end of the input: the thread panics
CtPanic ==
  [tag |-> "Panic", n |-> 0, err |-> "", table_name |-> <<>>, columns |-> <<>>]

CtPending ==
  [tag |-> "pending", n |-> 0, err |-> "", table_name |-> <<>>, columns |-> <<>>]

\* one column definition and the token after it (parser.rs:78-134): the
\* column, that token with its n, and the input left after that token
ColParsed(col, n, token, rest) ==
  [tag |-> "Col", err |-> "", col |-> col, n |-> n, token |-> token, rest |-> rest]

ColErr(msg) ==
  [tag |-> "Err", err |-> msg, col |-> ColumnDef(<<>>, "None", FALSE), n |-> 0,
   token |-> NoToken.token, rest |-> <<>>]

\* parser.rs:122-134  the token after KEY; rest is the input after KEY
AfterKey(name, data_type, rest, t) ==
  IF ~t.some THEN ColErr("no right paren")
  ELSE ColParsed(ColumnDef(name, data_type, TRUE), t.n, t.token, Drop(rest, t.n))

\* parser.rs:116-121  the token after PRIMARY; rest is the input after PRIMARY
AfterPrimary(name, data_type, rest, t) ==
  IF ~(t.some /\ t.token.type = "Key") THEN ColErr("no key")
  ELSE AfterKey(name, data_type, Drop(rest, t.n), get_token_no_space(Drop(rest, t.n)))

\* parser.rs:115-134  t is (n, token) and rest the input after that token
PrimaryKey(name, data_type, t, rest) ==
  IF t.token.type = "Primary"
  THEN AfterPrimary(name, data_type, rest, get_token_no_space(rest))
  ELSE ColParsed(ColumnDef(name, data_type, FALSE), t.n, t.token, rest)

\* parser.rs:89-90, 94-109  the token after the type name; rest is the input
\* after the type name
AfterType(name, data_type, rest, t) ==
  IF ~t.some THEN ColErr("no right paren")
  ELSE IF data_type = "unknown" THEN ColErr("unknown data type")
  ELSE PrimaryKey(name, data_type, t, Drop(rest, t.n))

\* parser.rs:85-113  the token after the column name; rest is the input after
\* the column name
AfterName(name, rest, t) ==
  IF ~t.some THEN ColErr("no right paren")
  ELSE IF t.token.type \in {"Null", "Identifier"}
  THEN AfterType(name,
                 IF t.token.type = "Null" THEN "Null" ELSE DataTypeOf(t.token.text),
                 Drop(rest, t.n), get_token_no_space(Drop(rest, t.n)))
  ELSE PrimaryKey(name, "None", t, Drop(rest, t.n))

\* parser.rs:78-83
ColumnNameToken(inp, t) ==
  IF ~(t.some /\ t.token.type = "Identifier") THEN ColErr("no column name")
  ELSE AfterName(t.token.text, Drop(inp, t.n), get_token_no_space(Drop(inp, t.n)))

\* parser.rs:78-134
ParseColumnDef(inp) == ColumnNameToken(inp, get_token_no_space(inp))

\* parser.rs:137-139  Token::Comma => input = &input[n..]: n is the length of
\* the comma token, which lines 86, 95 or 123 have already cut off the input
AfterComma(rest, n) ==
  IF n > Len(rest) THEN [panic |-> TRUE, rest |-> <<>>]
  ELSE [panic |-> FALSE, rest |-> Drop(rest, n)]

ColsOk(columns, rest) == [tag |-> "Ok", err |-> "", columns |-> columns, rest |-> rest]

ColsErr(msg) == [tag |-> "Err", err |-> msg, columns |-> <<>>, rest |-> <<>>]

ColsPanic == [tag |-> "Panic", err |-> "", columns |-> <<>>, rest |-> <<>>]

RECURSIVE ParseColumns(_, _)
\* parser.rs:130-144  c is the column just parsed with the token after it
ColumnPushed(columns, c) ==
  IF c.tag = "Err" THEN ColsErr(c.err)
  ELSE CASE c.token.type = "Comma" ->
              IF AfterComma(c.rest, c.n).panic THEN ColsPanic
              ELSE ParseColumns(AfterComma(c.rest, c.n).rest, Append(columns, c.col))
         [] c.token.type = "RightParen" -> ColsOk(Append(columns, c.col), c.rest)
         [] OTHER -> ColsErr("no right paren")

\* the loop of parser.rs:77-145: the columns and the input left, or an error
ParseColumns(inp, columns) == ColumnPushed(columns, ParseColumnDef(inp))

\* parser.rs:147
CreateTableEnd(len_input, table_name, cs) ==
  CASE cs.tag = "Err" -> CtErr(cs.err)
    [] cs.tag = "Panic" -> CtPanic
    [] OTHER -> CtOk(len_input - Len(cs.rest), table_name, cs.columns)

\* parser.rs:71-76
LeftParenToken(len_input, table_name, inp, t) ==
  IF ~(t.some /\ t.token.type = "LeftParen") THEN CtErr("no left paren")
  ELSE CreateTableEnd(len_input, table_name, ParseColumns(Drop(inp, t.n), <<>>))

\* parser.rs:65-70
TableNameToken(len_input, inp, t) ==
  IF ~(t.some /\ t.token.type = "Identifier") THEN CtErr("no table_name")
  ELSE LeftParenToken(len_input, t.token.text, Drop(inp, t.n),
                      get_token_no_space(Drop(inp, t.n)))

\* parser.rs:60-64
TableToken(len_input, inp, t) ==
  IF ~(t.some /\ t.token.type = "Table") THEN CtErr("no table")
  ELSE TableNameToken(len_input, Drop(inp, t.n), get_token_no_space(Drop(inp, t.n)))

\* parser.rs:55-59
CreateToken(len_input, inp, t) ==
  IF ~(t.some /\ t.token.type = "Create") THEN CtErr("no create")
  ELSE TableToken(len_input, Drop(inp, t.n), get_token_no_space(Drop(inp, t.n)))

\* parser.rs:51-148
parse_create_table(inp) == CreateToken(Len(inp), inp, get_token_no_space(inp))

(***************************************************************************)
(* parse_select, parse_result_column and parse_expr (parser.rs:159-282).   *)
(***************************************************************************)
NoExpr == [kind |-> "none"]

Column(id) == [kind |-> "Column", name |-> id]

LiteralInteger(i) == [kind |-> "LiteralValue", value |-> i]

BinaryOperator(operator, left, right) ==
  [kind |-> "BinaryOperator", operator |-> operator, left |-> left, right |-> right]

ExprOk(n, expr) == [tag |-> "Ok", n |-> n, err |-> "", expr |-> expr]

ExprErr(msg) == [tag |-> "Err", n |-> 0, err |-> msg, expr |-> NoExpr]

ExprPending == [tag |-> "pending", n |-> 0, err |-> "", expr |-> NoExpr]

\* parser.rs:261-269  the comparison operators
OperatorTokens == {"Eq", "Ne", "Gt", "Ge", "Lt", "Le"}

\* parser.rs:255-259
LeftOf(t) ==
  IF t.token.type = "Identifier" THEN Column(t.token.text)
  ELSE LiteralInteger(t.token.value)

\* mutant: only the bytes of the right operand are counted
ExprEndRightOnly(consumed, operator, left, r) ==
  IF r.tag = "Err" THEN r
  ELSE ExprOk(r.n, BinaryOperator(operator, left, r.expr))

\* parser.rs:272-281  consumed is input_len - input.len()
ExprEnd(consumed, operator, left, r) ==
  IF r.tag = "Err" THEN r
  ELSE ExprOk(consumed + r.n, BinaryOperator(operator, left, r.expr))

RECURSIVE parse_expr(_)
\* parser.rs:261-272  n and left are of the first token, t the token after it
OperatorToken(n, left, rest, t) ==
  IF ~(t.some /\ t.token.type \in OperatorTokens) THEN ExprOk(n, left)
  ELSE ExprEnd(n + t.n, t.token.type, left, parse_expr(Drop(rest, t.n)))

\* parser.rs:255-260
LeftToken(inp, t) ==
  IF ~(t.some /\ t.token.type \in {"Identifier", "Integer"}) THEN ExprErr("no expr")
  ELSE OperatorToken(t.n, LeftOf(t), Drop(inp, t.n), get_token_no_space(Drop(inp, t.n)))

\* parser.rs:253-282
parse_expr(inp) == LeftToken(inp, get_token_no_space(inp))

All == [kind |-> "All", name |-> <<>>]

ColumnName(id) == [kind |-> "ColumnName", name |-> id]

RcOk(n, col) == [tag |-> "Ok", n |-> n, err |-> "", col |-> col]

RcErr(msg) == [tag |-> "Err", n |-> 0, err |-> msg, col |-> All]

\* parser.rs:219-223
ResultColumnToken(t) ==
  IF t.some /\ t.token.type = "Identifier" THEN RcOk(t.n, ColumnName(t.token.text))
  ELSE IF t.some /\ t.token.type = "Asterisk" THEN RcOk(t.n, All)
  ELSE RcErr("no result column name")

\* parser.rs:218-224
parse_result_column(inp) == ResultColumnToken(get_token_no_space(inp))

RECURSIVE SelectColumns(_, _)
\* mutant: the result column is put in front of the ones before it
ResultColumnInFront(inp, columns, rc) ==
  IF rc.tag = "Err" THEN ColsErr(rc.err)
  ELSE SelectColumns(Drop(inp, rc.n), <<rc.col>> \o columns)

\* parser.rs:175-177  rc is the result column after a comma
ResultColumnPushed(inp, columns, rc) ==
  IF rc.tag = "Err" THEN ColsErr(rc.err)
  ELSE SelectColumns(Drop(inp, rc.n), Append(columns, rc.col))

\* parser.rs:172-184
CommaOrFrom(inp, columns, t) ==
  IF t.some /\ t.token.type = "Comma"
  THEN ResultColumnPushed(Drop(inp, t.n), columns, parse_result_column(Drop(inp, t.n)))
  ELSE IF t.some /\ t.token.type = "From" THEN ColsOk(columns, Drop(inp, t.n))
  ELSE ColsErr("no from")

\* the loop of parser.rs:171-185: the result columns and the input after FROM
SelectColumns(inp, columns) == CommaOrFrom(inp, columns, get_token_no_space(inp))

SelOk(n, table_name, columns, selection) ==
  [tag |-> "Ok", n |-> n, err |-> "", table_name |-> table_name,
   columns |-> columns, selection |-> selection]

SelErr(msg) ==
  [tag |-> "Err", n |-> 0, err |-> msg, table_name |-> <<>>, columns |-> <<>>,
   selection |-> NoExpr]

SelPending ==
  [tag |-> "pending", n |-> 0, err |-> "", table_name |-> <<>>, columns |-> <<>>,
   selection |-> NoExpr]

\* parser.rs:195-209  e is the expression after WHERE, rest the input after WHERE
Selection(len_input, table_name, columns, rest, e) ==
  IF e.tag = "Err" THEN SelErr(e.err)
  ELSE SelOk(len_input - Len(Drop(rest, e.n)), table_name, columns, e.expr)

\* parser.rs:193-209  rest is the input after the table name; selection NoExpr
\* is None
WhereToken(len_input, table_name, columns, rest, t) ==
  IF t.some /\ t.token.type = "Where"
  THEN Selection(len_input, table_name, columns, Drop(rest, t.n),
                 parse_expr(Drop(rest, t.n)))
  ELSE SelOk(len_input - Len(rest), table_name, columns, NoExpr)

\* mutant: a missing table name reported as a missing FROM
SelectTableNameAsFrom(len_input, columns, inp, t) ==
  IF ~(t.some /\ t.token.type = "Identifier") THEN SelErr("no from")
  ELSE WhereToken(len_input, t.token.text, columns, Drop(inp, t.n),
                  get_token_no_space(Drop(inp, t.n)))

\* parser.rs:186-191
SelectTableName(len_input, columns, inp, t) ==
  IF ~(t.some /\ t.token.type = "Identifier") THEN SelErr("no table_name")
  ELSE WhereToken(len_input, t.token.text, columns, Drop(inp, t.n),
                  get_token_no_space(Drop(inp, t.n)))

\* parser.rs:170-185
SelectLoop(len_input, cs) ==
  IF cs.tag = "Err" THEN SelErr(cs.err)
  ELSE SelectTableName(len_input, cs.columns, cs.rest, get_token_no_space(cs.rest))

\* parser.rs:168-170
FirstResultColumn(len_input, inp, rc) ==
  IF rc.tag = "Err" THEN SelErr(rc.err)
  ELSE SelectLoop(len_input, SelectColumns(Drop(inp, rc.n), <<rc.col>>))

\* parser.rs:163-167
SelectToken(len_input, inp, t) ==
  IF ~(t.some /\ t.token.type = "Select") THEN SelErr("no select")
  ELSE FirstResultColumn(len_input, Drop(inp, t.n), parse_result_column(Drop(inp, t.n)))

\* parser.rs:159-210
parse_select(inp) == SelectToken(Len(inp), inp, get_token_no_space(inp))

(***************************************************************************)
(* The inputs of the parsers: statements written from the grammar          *)
(*   CREATE TABLE <ident> ( <col> {, <col>} )                              *)
(*   SELECT <rc> {, <rc>} FROM <ident> [WHERE <expr>]                      *)
(* with 0..MaxWs spaces before and after every comma, followed by trailing *)
(* bytes, and every proper prefix of such a statement (an input that ends  *)
(* early).  stmt records what was written: the parsers never read it.      *)
(***************************************************************************)
Sp(k) == [i \in 1..k |-> " "]

CreateHeaders ==
  {[text |-> <<"c", "r", "e", "a", "t", "e", " ", "t", "a", "b", "l", "e", " ", "f", "o", "o", " ", "(">>, table_name |-> <<"f", "o", "o">>],
   [text |-> <<"C", "R", "E", "A", "T", "E", " ", " ", "T", "A", "B", "L", "E", " ", "F", "o", "o", "(">>, table_name |-> <<"F", "o", "o">>]}

ColNames == {<<"a">>, <<"I", "d">>}

\* what follows a column's name, and the ColumnDef fields it stands for
ColTails ==
  {[text |-> <<>>, data_type |-> "None", primary_key |-> FALSE],
   [text |-> <<" ", "i", "n", "t", "e", "g", "e", "r">>, data_type |-> "Integer", primary_key |-> FALSE],
   [text |-> <<" ", "N", "U", "L", "L">>, data_type |-> "Null", primary_key |-> FALSE],
   [text |-> <<" ", "T", "e", "x", "t", " ", "p", "r", "i", "m", "a", "r", "y", " ", "K", "E", "Y">>, data_type |-> "Text", primary_key |-> TRUE]}

ColSpecs == {[name |-> nm, tail |-> tl] : nm \in ColNames, tl \in ColTails}

Trailers == {<<>>, <<"a", "b", "c", " ">>, <<"c", ")">>}

RECURSIVE RenderList(_, _, _, _)
\* the items from the i-th on, separated by wsB spaces, a comma, wsA spaces
RenderList(items, i, wsB, wsA) ==
  IF i > Len(items) THEN <<>>
  ELSE (IF i > 1 THEN Sp(wsB) \o <<",">> \o Sp(wsA) ELSE <<>>)
       \o items[i] \o RenderList(items, i + 1, wsB, wsA)

CreateText(h, cols, wsB, wsA) ==
  h.text \o RenderList([i \in DOMAIN cols |-> cols[i].name \o cols[i].tail.text],
                       1, wsB, wsA) \o <<")">>

Written(kind, complete, table_name, columns, selection, wf_len) ==
  [kind |-> kind, complete |-> complete, table_name |-> table_name,
   columns |-> columns, selection |-> selection, wf_len |-> wf_len]

\* an input that ends early: nothing is known of it but its bytes
CutShort == Written("cut", FALSE, <<>>, <<>>, NoExpr, 0)

ResultCols ==
  {[text |-> <<"*">>, col |-> All],
   [text |-> <<"i", "d">>, col |-> ColumnName(<<"i", "d">>)]}

Wheres ==
  {[text |-> <<>>, expr |-> NoExpr],
   [text |-> <<" ", "w", "h", "e", "r", "e", " ", "i", "d", " ", "=", " ", "5">>,
    expr |-> BinaryOperator("Eq", Column(<<"i", "d">>), LiteralInteger(5))],
   [text |-> <<" ", "W", "H", "E", "R", "E", " ", "a", ">", "=", "1", "0", " ", "!", "=", " ", "b">>,
    expr |-> BinaryOperator("Ge", Column(<<"a">>),
               BinaryOperator("Ne", LiteralInteger(10), Column(<<"b">>)))]}

SelectText(rcs, wsB, wsA, w) ==
  <<"s", "e", "l", "e", "c", "t">> \o <<" ">>
  \o RenderList([i \in DOMAIN rcs |-> rcs[i].text], 1, wsB, wsA)
  \o <<" ", "f", "r", "o", "m", " ", "f", "o", "o">> \o w.text

InitCreate ==
  \E h \in CreateHeaders, k \in 1..MaxCols, wsB \in 0..MaxWs, wsA \in 0..MaxWs :
    \E cols \in [1..k -> ColSpecs] :
      LET w == CreateText(h, cols, wsB, wsA)
      IN \/ \E tr \in Trailers :
              /\ input = w \o tr
              /\ stmt = Written("create", TRUE, h.table_name,
                                [i \in 1..k |-> ColumnDef(cols[i].name,
                                                          cols[i].tail.data_type,
                                                          cols[i].tail.primary_key)],
                                NoExpr, Len(w))
         \/ \E cut \in 0..(Len(w) - 1) :
              /\ input = SubSeq(w, 1, cut)
              /\ stmt = CutShort

\* what follows a column's name in a column definition the grammar rejects:
\* PRIMARY without KEY, KEY without PRIMARY, and a type name that is none of
\* integer, real, text, blob
BadTails ==
  {<<" ", "p", "r", "i", "m", "a", "r", "y">>,
   <<" ", "K", "E", "Y">>,
   <<" ", "i", "n", "t", "e", "g", "e", "r", " ", "k", "e", "y">>,
   <<" ", "f", "o", "o">>}

\* a statement whose j-th column definition is one the grammar rejects
InitCreateBad ==
  \E h \in CreateHeaders, k \in 1..MaxCols, wsB \in 0..MaxWs, wsA \in 0..MaxWs :
    \E cols \in [1..k -> ColSpecs], j \in 1..k, nm \in ColNames, bad \in BadTails :
      /\ input = h.text
                 \o RenderList([i \in 1..k |-> IF i = j THEN nm \o bad
                                               ELSE cols[i].name \o cols[i].tail.text],
                               1, wsB, wsA)
                 \o <<")">>
      /\ stmt = Written("rejected", FALSE, h.table_name, <<>>, NoExpr, 0)

\* bytes after a SELECT statement that no token of the statement runs into
SelectTrailers == {<<>>, <<" ", "x">>, <<")", "c">>, <<";", " ">>}

InitSelect ==
  \E k \in 1..MaxCols, wsB \in 0..MaxWs, wsA \in 0..MaxWs, wh \in Wheres :
    \E rcs \in [1..k -> ResultCols] :
      LET w == SelectText(rcs, wsB, wsA, wh)
      IN \/ \E tr \in SelectTrailers :
              /\ input = w \o tr
              /\ stmt = Written("select", TRUE, <<"f", "o", "o">>,
                                [i \in 1..k |-> rcs[i].col], wh.expr, Len(w))
         \/ \E cut \in 0..(Len(w) - 1) :
              /\ input = SubSeq(w, 1, cut)
              /\ stmt = CutShort

InitParser ==
  /\ CursorOff
  /\ LoadOff
  /\ InitCreate \/ InitCreateBad \/ InitSelect
  /\ ct_result = CtPending
  /\ sel_result = SelPending
  /\ expr_result = ExprPending

CallParseCreateTable ==
  /\ ct_result = CtPending
  /\ ct_result' = parse_create_table(input)
  /\ UNCHANGED <<input, stmt, sel_result, expr_result>>
  /\ UNCHANGED notParser

CallParseSelect ==
  /\ sel_result = SelPending
  /\ sel_result' = parse_select(input)
  /\ UNCHANGED <<input, stmt, ct_result, expr_result>>
  /\ UNCHANGED notParser

NextParser ==
  \/ CallParseCreateTable
  \/ CallParseSelect

SpecParser == InitParser /\ [][NextParser]_vars

(***************************************************************************)
(* parse_select and parse_expr on their own inputs: SELECT statements, and *)
(* expressions  <atom> {<op> <atom>}  of up to MaxAtoms atoms with the same *)
(* number of spaces before every token.                                    *)
(***************************************************************************)
Atoms ==
  {[text |-> <<"i", "d">>, expr |-> Column(<<"i", "d">>)],
   [text |-> <<"4", "2">>, expr |-> LiteralInteger(42)],
   [text |-> <<"B", "2">>, expr |-> Column(<<"B", "2">>)]}

Operators ==
  {[text |-> <<"=">>, operator |-> "Eq"],
   [text |-> <<"!", "=">>, operator |-> "Ne"],
   [text |-> <<">">>, operator |-> "Gt"],
   [text |-> <<">", "=">>, operator |-> "Ge"],
   [text |-> <<"<">>, operator |-> "Lt"],
   [text |-> <<"<", "=">>, operator |-> "Le"]}

RECURSIVE ChainText(_, _, _, _)
\* the chain from its i-th atom on, ws spaces before every token
ChainText(atoms, ops, i, ws) ==
  Sp(ws) \o atoms[i].text
  \o (IF i = Len(atoms) THEN <<>>
      ELSE Sp(ws) \o ops[i].text \o ChainText(atoms, ops, i + 1, ws))

RECURSIVE RightNested(_, _, _)
\* Binary(op_i, atom_i, Binary(op_i+1, atom_i+1, ...))
RightNested(atoms, ops, i) ==
  IF i = Len(atoms) THEN atoms[i].expr
  ELSE BinaryOperator(ops[i].operator, atoms[i].expr, RightNested(atoms, ops, i + 1))

InitExpr ==
  \E k \in 1..MaxAtoms, ws \in 0..MaxWs, tr \in SelectTrailers :
    \E atoms \in [1..k -> Atoms], ops \in [1..(k - 1) -> Operators] :
      /\ input = ChainText(atoms, ops, 1, ws) \o tr
      /\ stmt = Written("expr", TRUE, <<>>, <<>>, RightNested(atoms, ops, 1),
                        Len(ChainText(atoms, ops, 1, ws)))

\* what an input that parse_select refuses was written to fail with
Refused(err) == [kind |-> "refused", complete |-> FALSE, err |-> err]

\* a first token that is not SELECT, or none
NotSelect ==
  {<<>>,
   <<"c", "r", "e", "a", "t", "e">>,
   <<"*">>,
   <<"f", "r", "o", "m", " ", "f", "o", "o">>,
   <<"i", "d">>,
   <<"(", "s", "e", "l", "e", "c", "t">>}

\* in a result column's position: neither '*' nor an identifier
NotResultColumn ==
  {<<>>,
   <<" ", "f", "r", "o", "m", " ", "f", "o", "o">>,
   <<" ", "5", " ", "f", "r", "o", "m", " ", "f", "o", "o">>,
   <<",", " ", "i", "d", " ", "f", "r", "o", "m", " ", "f", "o", "o">>,
   <<" ", "w", "h", "e", "r", "e", " ", "i", "d", " ", "=", " ", "5">>,
   <<" ", ")">>}

\* after a result column: neither a comma nor FROM
NotCommaOrFrom ==
  {<<>>,
   <<" ", "f", "o", "o">>,
   <<" ", "w", "h", "e", "r", "e", " ", "i", "d", " ", "=", " ", "5">>,
   <<" ", "5">>,
   <<" ", ")">>,
   <<" ", "t", "a", "b", "l", "e">>}

\* after FROM: no identifier
NotTableName ==
  {<<>>,
   <<" ">>,
   <<" ", "w", "h", "e", "r", "e", " ", "i", "d", " ", "=", " ", "5">>,
   <<" ", "5">>,
   <<" ", "*">>,
   <<" ", "f", "r", "o", "m", " ", "f", "o", "o">>}

\* after WHERE: neither an identifier nor an integer
NotExpr ==
  {<<>>,
   <<" ">>,
   <<" ", "=", " ", "5">>,
   <<" ", "w", "h", "e", "r", "e", " ", "i", "d">>,
   <<" ", "*", " ", "=", " ", "5">>,
   <<" ", ")">>,
   <<" ", "!", "=", " ", "i", "d">>}

\* inputs that parse_select refuses, each with the message of the first
\* thing wrong with it
InitSelectBad ==
  \/ \E bad \in NotSelect :
       /\ input = bad \o <<" ", "*", " ", "f", "r", "o", "m", " ", "f", "o", "o">>
       /\ stmt = Refused("no select")
  \/ \E k \in 1..MaxCols, wsB \in 0..MaxWs, wsA \in 0..MaxWs :
       \E rcs \in [1..k -> ResultCols] :
         LET list == RenderList([i \in 1..k |-> rcs[i].text], 1, wsB, wsA)
             head == <<"S", "e", "l", "e", "c", "t", " ">> \o list
         IN \/ \E bad \in NotResultColumn :
                 /\ input = head \o Sp(wsB) \o <<",">> \o bad
                 /\ stmt = Refused("no result column name")
            \/ \E bad \in NotCommaOrFrom :
                 /\ input = head \o bad
                 /\ stmt = Refused("no from")
            \/ \E bad \in NotTableName :
                 /\ input = head \o <<" ", "f", "r", "o", "m">> \o bad
                 /\ stmt = Refused("no table_name")
            \/ \E bad \in NotExpr :
                 /\ input = head \o <<" ", "F", "R", "O", "M", " ", "f", "o", "o", " ", "w", "h", "e", "r", "e">> \o bad
                 /\ stmt = Refused("no expr")
  \/ \E bad \in NotResultColumn :
       /\ input = <<"s", "e", "l", "e", "c", "t">> \o bad
       /\ stmt = Refused("no result column name")

CallParseExpr ==
  /\ expr_result = ExprPending
  /\ expr_result' = parse_expr(input)
  /\ UNCHANGED <<input, stmt, ct_result, sel_result>>
  /\ UNCHANGED notParser

InitSelectParser ==
  /\ CursorOff
  /\ LoadOff
  /\ InitSelect \/ InitExpr \/ InitSelectBad
  /\ ct_result = CtPending
  /\ sel_result = SelPending
  /\ expr_result = ExprPending

NextSelect ==
  \/ CallParseSelect
  \/ CallParseExpr

SpecSelect == InitSelectParser /\ [][NextSelect]_vars

(***************************************************************************)
(* Claims about the cursor, checked under SpecCursor.                      *)
(***************************************************************************)
\* the leaf cells of the tree, as a set
LeafCells == {InOrder(pages, RootPage)[i] : i \in 1..RowCount(pages)}

\* the rowkey of a leaf cell when the rowkeys ascend in the file's layout:
\* its rank in the left-to-right order of the leaf cells
RowKey(cell) ==
  CHOOSE k \in 1..RowCount(pages) : InOrder(pages, RootPage)[k] = cell

\* C1 (exhaustiveness): with no pager error, a fresh cursor never returns a
\* leaf cell twice, returns at most R payloads, and once next() has returned
\* None it has returned exactly R payloads, every leaf cell <<page, idx>> of
\* the tree exactly once (the right_page_id subtrees included).
C1_Exhaustive ==
  nFail = 0 =>
    /\ \A i, j \in 1..Len(emitted) : i # j => emitted[i] # emitted[j]
    /\ \A i \in 1..Len(emitted) : emitted[i] \in LeafCells
    /\ Len(emitted) <= RowCount(pages)
    /\ nNone >= 1 =>
         /\ Len(emitted) = RowCount(pages)
         /\ \A c \in LeafCells :
              Cardinality({i \in 1..Len(emitted) : emitted[i] = c}) = 1

\* a tree of depth three with a row under a right_page_id, walked to None
C1_Witness ==
  /\ nFail = 0 /\ nNone = 1 /\ Len(emitted) >= 3
  /\ ~pages[RootPage].is_leaf
  /\ ~pages[pages[RootPage].right_page_id].is_leaf
  /\ \E i \in 1..Len(emitted) :
       emitted[i][1] = pages[pages[RootPage].right_page_id].right_page_id

\* C2 (order): with no pager error, the payloads returned so far are the
\* first leaf cells of the tree in left-to-right order (a leaf's cells by
\* increasing index, interior cell i's subtree before cell i+1's, the
\* right_page_id subtree last); so with rowkeys ascending in that layout,
\* consecutive returned rowkeys strictly increase.
C2_InOrder ==
  nFail = 0 =>
    /\ IsPrefix(emitted, InOrder(pages, RootPage))
    /\ \A i \in 1..(Len(emitted) - 1) : RowKey(emitted[i]) < RowKey(emitted[i + 1])

\* rows were returned from three different leaves of a root with two cells
C2_Witness ==
  /\ nFail = 0 /\ pages[RootPage].n_cells = 2 /\ ~pages[RootPage].is_leaf
  /\ Cardinality({emitted[i][1] : i \in 1..Len(emitted)}) >= 3

\* C3 (termination is permanent): once next() has returned None and no pager
\* error has happened, every later step leaves the cursor where it is, emits
\* nothing, fails nowhere, and every later call returns None.
C3_NoneIsPermanent ==
  [][(nNone >= 1 /\ nFail = 0) =>
       /\ emitted' = emitted
       /\ parent_pages' = parent_pages
       /\ current_page_id' = current_page_id
       /\ current_page' = current_page
       /\ idx_cell' = idx_cell
       /\ nFail' = 0
       /\ ret' = "none"]_vars

\* a second None from a cursor whose root is an interior page with rows
C3_Witness ==
  /\ nNone = 2 /\ nFail = 0 /\ ret = "none" /\ cpc = "idle"
  /\ ~pages[RootPage].is_leaf /\ Len(emitted) >= 2

\* C4 (empty table): on a tree without leaf cells (an empty root leaf, or
\* leaves that are all empty), with no pager error, no payload is ever
\* returned and the first next() call, once it has returned, returned None.
C4_EmptyTable ==
  (RowCount(pages) = 0 /\ nFail = 0) =>
    /\ emitted = <<>>
    /\ (cpc = "idle" /\ ret # "fresh") => ret = "none"

\* the first next() on an empty root leaf has returned None
C4_Witness ==
  /\ pages[RootPage].is_leaf /\ pages[RootPage].n_cells = 0
  /\ nNone = 1 /\ ret = "none" /\ cpc = "idle" /\ emitted = <<>>

(***************************************************************************)
(* Claims about load, checked under SpecLoad.                              *)
(***************************************************************************)
RECURSIVE ChainEnds(_, _)
\* the chain from page p reaches a page without next within fuel pages
ChainEnds(p, fuel) ==
  IF p = NoPage THEN TRUE
  ELSE IF fuel = 0 THEN FALSE
  ELSE ChainEnds(ovf[p].next, fuel - 1)

RECURSIVE ChainBytes(_, _)
\* the segments of the chain from page p, concatenated
ChainBytes(p, fuel) ==
  IF p = NoPage \/ fuel = 0 THEN <<>>
  ELSE ovf[p].payload \o ChainBytes(ovf[p].next, fuel - 1)

NPages == Len(ovf)

\* the chain is finite
Ends == ChainEnds(overflow, NPages)

\* the payload bytes actually available: local bytes, then the chain's
Concat == local \o ChainBytes(overflow, NPages)

\* the call met no error of the pager or of the overflow page's parse
NoIoError == ~(result.tag = "Err" /\ result.err \in {"get_page", "parse overflow"})

\* C5 (load windowing and completeness): when the local bytes and the
\* chain's segments concatenate to exactly size bytes and offset < size, a
\* load call that met no I/O error returns n = min(dst.len, size - offset),
\* the first n bytes of dst are bytes [offset, offset + n) of the
\* concatenation, and for offset = 0 and dst.len >= size it returns size
\* with dst starting with the local bytes.
C5_LoadWindow ==
  (lpc = "done" /\ Ends /\ Len(Concat) = size /\ arg_offset < size /\ NoIoError) =>
    /\ result = Ok(Min(Len(dst), size - arg_offset))
    /\ \A i \in 1..result.n : dst[i] = Concat[arg_offset + i]
    /\ (arg_offset = 0 /\ Len(dst) >= size) =>
         /\ result.n = size
         /\ SubSeq(dst, 1, Len(local)) = local

\* a window that starts inside the local bytes and crosses both page
\* boundaries of a two-page chain
C5_Witness ==
  /\ lpc = "done" /\ Ends /\ Len(Concat) = size /\ NoIoError
  /\ arg_offset >= 1 /\ arg_offset < Len(local)
  /\ Len(fetched) = 2 /\ result.tag = "Ok" /\ result.n >= 3
  /\ dst[result.n] > Len(local) + Len(ovf[1].payload)

\* C6 (load range check): a finished load call has returned the out-of-range
\* error if and only if offset >= size, whatever dst's length; then no page
\* was fetched and no byte of dst written; and with an empty dst and
\* offset < size it returned Ok(0) without fetching a page.
C6_RangeCheck ==
  /\ lpc = "done" =>
       ((result = Err("offset exceeds payload size")) <=> (arg_offset >= size))
  /\ arg_offset >= size =>
       /\ fetched = <<>>
       /\ \A i \in 1..Len(dst) : dst[i] = NotWritten
  /\ (lpc = "done" /\ Len(dst) = 0 /\ arg_offset < size) =>
       /\ result = Ok(0)
       /\ fetched = <<>>

\* load(size, dst) with a non-empty dst on a payload with overflow pages
C6_Witness ==
  /\ lpc = "done" /\ arg_offset = size /\ size > Len(local) /\ overflow # NoPage
  /\ Len(dst) > 0 /\ result = Err("offset exceeds payload size")

\* C7 (truncated chain): when the chain ends with T < size bytes available
\* and offset < size, a load call that met no I/O error fails with "overflow
\* page is not found" exactly when dst is non-empty and offset + dst.len > T,
\* and otherwise returns dst.len.
C7_Truncated ==
  (lpc = "done" /\ Ends /\ Len(Concat) < size /\ arg_offset < size /\ NoIoError) =>
    IF Len(dst) > 0 /\ arg_offset + Len(dst) > Len(Concat)
    THEN result = Err("overflow page is not found")
    ELSE result = Ok(Len(dst))

\* a window that ends on the last available byte of a truncated chain
C7_Witness ==
  /\ lpc = "done" /\ Ends /\ Len(Concat) < size /\ overflow # NoPage
  /\ Len(dst) >= 2 /\ arg_offset + Len(dst) = Len(Concat)
  /\ result = Ok(Len(dst)) /\ Len(fetched) >= 1

\* a window that needs a byte past the end of a truncated chain
C7_WitnessErr ==
  /\ lpc = "done" /\ Ends /\ Len(Concat) < size /\ overflow # NoPage
  /\ arg_offset < Len(Concat) /\ arg_offset + Len(dst) > Len(Concat)
  /\ result = Err("overflow page is not found")

(***************************************************************************)
(* Claims about the parsers, checked under SpecParser.                     *)
(***************************************************************************)
\* the input is a whole CREATE TABLE statement, trailing bytes or not, and
\* parse_create_table has returned
CreateParsed == stmt.kind = "create" /\ stmt.complete /\ ct_result # CtPending

\* C8 (column names and order): for an input CREATE TABLE <ident> ( <col>
\* {, <col>} ) with any whitespace around the commas, none included,
\* parse_create_table succeeds with the table name as written and one
\* ColumnDef per <col> in input order, each name the bytes of the column's
\* identifier as written.
C8_ColumnNames ==
  CreateParsed =>
    /\ ct_result.tag = "Ok"
    /\ ct_result.table_name = stmt.table_name
    /\ Len(ct_result.columns) = Len(stmt.columns)
    /\ \A i \in 1..Len(stmt.columns) :
         i <= Len(ct_result.columns) => ct_result.columns[i].name = stmt.columns[i].name

\* C9 (prefix consumption): when parse_create_table succeeds on a statement
\* followed by trailing bytes, n is the offset just after the closing right
\* paren of the column list, and the trailing bytes do not turn a success on
\* the statement alone into an error.
C9_PrefixConsumed ==
  CreateParsed =>
    /\ ct_result.tag = "Ok" => ct_result.n = stmt.wf_len
    /\ parse_create_table(SubSeq(input, 1, stmt.wf_len)).tag = "Ok" =>
         ct_result.tag = "Ok"

\* C10 (errors are values): on every input each parser returns Ok with
\* n <= input length or Err; it never slices past the end of the input.
C10_ErrorsAreValues ==
  /\ ct_result.tag \in {"pending", "Ok", "Err"}
  /\ ct_result.tag = "Ok" => ct_result.n <= Len(input)
  /\ sel_result.tag \in {"pending", "Ok", "Err"}
  /\ sel_result.tag = "Ok" => sel_result.n <= Len(input)

\* C11 (per-column attributes): when parse_create_table succeeds on a
\* statement, every column it returns has the data_type the statement writes
\* after that column's name (None, Null, or the type named under ASCII case
\* folding) and primary_key true exactly when PRIMARY KEY follows.
C11_ColumnAttributes ==
  (CreateParsed /\ ct_result.tag = "Ok") =>
    \A i \in 1..Len(ct_result.columns) :
      i <= Len(stmt.columns) =>
        /\ ct_result.columns[i].data_type = stmt.columns[i].data_type
        /\ ct_result.columns[i].primary_key = stmt.columns[i].primary_key

\* C12 (rejected column definitions): parse_create_table returns Err, and so
\* no AST, on a statement with a column in which PRIMARY is not followed by
\* KEY, KEY comes without PRIMARY or the type name is unknown, and on an
\* input that ends before the closing right paren.
C12_Rejected ==
  (stmt.kind \in {"rejected", "cut"} /\ ct_result # CtPending) =>
    /\ ct_result.tag = "Err"
    /\ ct_result.columns = <<>>

(***************************************************************************)
(* Claims about parse_select and parse_expr, checked under SpecSelect.     *)
(***************************************************************************)
\* the input is a whole SELECT statement, trailing bytes or not, and
\* parse_select has returned
SelectParsed == stmt.kind = "select" /\ stmt.complete /\ sel_result # SelPending

\* C13 (parse_select result): on SELECT <rc> {, <rc>} FROM <ident> [WHERE
\* <expr>] parse_select returns one ResultColumn per <rc> in input order, the
\* identifier after FROM as table_name, selection None without WHERE and the
\* expression otherwise, and n = the offset just after the statement's last
\* token.
C13_SelectResult ==
  SelectParsed =>
    sel_result = SelOk(stmt.wf_len, stmt.table_name, stmt.columns, stmt.selection)

\* "select id , * from foo where ..." followed by trailing bytes
C13_Witness ==
  /\ SelectParsed /\ sel_result.tag = "Ok"
  /\ Len(sel_result.columns) >= 2
  /\ sel_result.columns[1] # sel_result.columns[2]
  /\ sel_result.selection # NoExpr
  /\ sel_result.n < Len(input)

\* C14 (expression shape): on atom1 op1 atom2 ... atomk parse_expr returns
\* the right-nested tree Binary(op1, atom1, Binary(op2, atom2, ...)), a lone
\* atom as Column or LiteralValue, and n = the offset just after the last
\* atom, the bytes of every token at every depth.
C14_ExprShape ==
  (stmt.kind = "expr" /\ expr_result # ExprPending) =>
    expr_result = ExprOk(stmt.wf_len, stmt.selection)

\* a chain of three atoms, spaces before every token, bytes trailing
C14_Witness ==
  /\ stmt.kind = "expr" /\ expr_result.tag = "Ok"
  /\ expr_result.expr.kind = "BinaryOperator"
  /\ expr_result.expr.right.kind = "BinaryOperator"
  /\ expr_result.expr.operator # expr_result.expr.right.operator
  /\ input[1] = " "
  /\ expr_result.n < Len(input)

\* C15 (parse_select errors): parse_select returns Err("no select") when the
\* first token is not SELECT, Err("no result column name") when a result
\* column is neither '*' nor an identifier, Err("no from") when a result
\* column is followed by neither a comma nor FROM, Err("no table_name") when
\* no identifier follows FROM, Err("no expr") when neither an identifier nor
\* an integer follows WHERE; no Select is returned.
C15_SelectErrors ==
  (stmt.kind = "refused" /\ sel_result # SelPending) => sel_result = SelErr(stmt.err)

\* an input that ends after FROM
C15_Witness ==
  /\ stmt.kind = "refused" /\ sel_result = SelErr("no table_name")
  /\ Len(input) >= 4
  /\ SubSeq(input, Len(input) - 3, Len(input)) = <<"f", "r", "o", "m">>

OnEmptyInterior ==
  /\ nFail = 0 /\ cpc = "in_next"
  /\ current_page # RootPage
  /\ ~Header.is_leaf /\ Header.n_cells = 0

\* C17 (empty interior page), as the code has it: when the cursor enters a
\* non-root interior page whose n_cells is 0, its next step descends into the
\* page's right_page_id child, stacking the page with index 1; it ascends to
\* the parent when it is back from that child, with idx_cell = 2.
C17_EmptyInterior ==
  [][OnEmptyInterior =>
       IF idx_cell = 0
       THEN /\ parent_pages' = Append(parent_pages, <<current_page, 1>>)
            /\ current_page_id' = Header.right_page_id
       ELSE /\ idx_cell = 2
            /\ parent_pages' = SubSeq(parent_pages, 1, Len(parent_pages) - 1)]_vars

\* a row of the leaf under a non-root interior page without cells is returned
C17_Witness ==
  /\ nFail = 0 /\ cpc = "idle" /\ ret = "some"
  /\ Len(parent_pages) >= 2
  /\ LET top == parent_pages[Len(parent_pages)]
     IN /\ ~pages[top[1]].is_leaf /\ pages[top[1]].n_cells = 0
        /\ top[2] = 1
        /\ current_page = pages[top[1]].right_page_id
        /\ emitted[Len(emitted)][1] = current_page

\* C17 as stated: the cursor ascends from a non-root interior page whose
\* n_cells is 0 without descending into any child of it, so no such page is
\* ever on the parent stack.
C17_AsStated ==
  nFail = 0 =>
    \A i \in 2..Len(parent_pages) :
      ~(~pages[parent_pages[i][1]].is_leaf /\ pages[parent_pages[i][1]].n_cells = 0)

\* the page whose cell or right_page_id points at page c
ParentOf(c) ==
  CHOOSE p \in DOMAIN pages :
    /\ ~pages[p].is_leaf
    /\ \/ pages[p].right_page_id = c
       \/ \E k \in 1..pages[p].n_cells : pages[p].cells[k] = c

RECURSIVE Ancestors(_)
\* the ancestors of page c, from the root down to c's parent
Ancestors(c) ==
  IF c = RootPage THEN <<>> ELSE Append(Ancestors(ParentOf(c)), ParentOf(c))

\* the page under the i-th stacked page on the cursor's path
PathChild(i) ==
  IF i = Len(parent_pages) THEN current_page ELSE parent_pages[i + 1][1]

\* C18 (parent stack): after any sequence of successful next() calls the page
\* ids in parent_pages, bottom to top, are the ancestors of the current page
\* from the root down to its parent (empty iff the current page is the root),
\* and each stacked index is the slot the path descends through: i < n_cells
\* for cell i, n_cells + 1 for the right_page_id child.
C18_ParentStack ==
  (nFail = 0 /\ cpc = "idle") =>
    /\ current_page = current_page_id
    /\ [i \in 1..Len(parent_pages) |-> parent_pages[i][1]] = Ancestors(current_page)
    /\ parent_pages = <<>> <=> current_page = RootPage
    /\ \A i \in 1..Len(parent_pages) :
         LET h == pages[parent_pages[i][1]]
             idx == parent_pages[i][2]
         IN IF idx < h.n_cells
            THEN h.cells[idx + 1] = PathChild(i)
            ELSE idx = h.n_cells + 1 /\ h.right_page_id = PathChild(i)

\* a row returned two levels down, under a right_page_id slot and then a cell
C18_Witness ==
  /\ nFail = 0 /\ cpc = "idle" /\ ret = "some"
  /\ Len(parent_pages) = 2
  /\ parent_pages[1][2] = pages[RootPage].n_cells + 1
  /\ parent_pages[2][2] < pages[parent_pages[2][1]].n_cells

(***************************************************************************)
(* Claims about the pages held, checked under SpecLoad and SpecCursor.     *)
(***************************************************************************)
\* C19 (overflow pinning in load): at every point of a load call at most one
\* overflow page is held, the page of one iteration is released before
\* get_page is called for the next, and when load has returned, with Ok or
\* Err, no overflow page is held.  load holds no overflow page before its
\* first step, so NHeld counts the pages held.
C19_OneOverflowPage ==
  /\ \A k \in 1..Len(ovf_log) :
       /\ NHeld(ovf_log, k, "page") \in {0, 1}
       /\ NHeld(ovf_log, k, "buffer") \in {0, 1}
       /\ (ovf_log[k].op = "get" /\ ovf_log[k].what = "page") =>
            /\ NHeld(ovf_log, k - 1, "page") = 0
            /\ NHeld(ovf_log, k - 1, "buffer") = 0
  /\ NHeld(ovf_log, Len(ovf_log), "page") = 0
  /\ NHeld(ovf_log, Len(ovf_log), "buffer") = 0

\* the second overflow page of a chain has been fetched, used and released
C19_Witness ==
  /\ lpc = "loop"
  /\ Len(fetched) = 2 /\ fetched[1] # fetched[2]
  /\ ovf_log = IterationHolds(fetched[2])
  /\ n_loaded >= 2

\* a load that failed in OverflowPage::parse on its second overflow page
C19_WitnessErr ==
  /\ lpc = "done" /\ result = Err("parse overflow")
  /\ Len(fetched) >= 2
  /\ ovf_log = IterationHolds(fetched[Len(fetched)])

\* the pages the cursor holds after the first k events of a step: the MemPage
\* in current_page is held when the step begins
PagesHeld(k) == 1 + NHeld(page_log, k, "page")

IoError(r) == r.tag = "Err" /\ r.err \in {"get_page", "parse overflow"}

\* what the last load call left behind, once it has returned
LastReturned == [result |-> result, fetched |-> fetched, dst |-> dst]

\* the steps of a load call, the call itself included
LoadStep == loadVars' # loadVars

\* C21 (load is read-only): no step of a load call, whether the call succeeds
\* or fails with out-of-range, truncated-chain or pager error, changes the
\* cursor (current_page_id, idx_cell, parent_pages, the page held) or the
\* payload handle (size, the local bytes, the overflow head); every load call
\* walks the chain from the handle's head; a load that repeats the one before
\* it on the same payload with the same arguments fetches the same pages,
\* fills the buffer alike and returns the same result (unless the pager
\* answered one of the two with an error); and the rows next() returns, loads
\* in between or not, are the leaf cells of the tree in order.
C21_LoadReadOnly ==
  /\ [][LoadStep => UNCHANGED <<current_page_id, current_page, idx_cell,
                                parent_pages, size, local, overflow, ovf>>]_vars
  /\ [](fetched # <<>> => fetched[1] = overflow)
  /\ []((lpc = "done" /\ returned # NoCall) =>
          ((~IoError(returned.result) /\ ~IoError(result)) =>
             returned = LastReturned))
  /\ [](nFail = 0 => IsPrefix(emitted, InOrder(pages, RootPage)))

\* the second row came back after a load of the first row and its repeat,
\* alike in the pages they fetched, the bytes they copied and their Ok
C21_Witness ==
  /\ Len(emitted) = 2 /\ ret = "some"
  /\ called # NoCall /\ called.row = 1
  /\ returned # NoCall /\ lpc = "done"
  /\ result.tag = "Ok" /\ result.n >= 2
  /\ Len(fetched) >= 1
  /\ returned = LastReturned

\* a load that failed on the pager, repeated with success
C21_WitnessRetry ==
  /\ returned # NoCall /\ lpc = "done"
  /\ IoError(returned.result)
  /\ result.tag = "Ok" /\ result.n >= 2


(***************************************************************************)
(* The cursor after a pager error, checked under SpecCursor.               *)
(***************************************************************************)
\* C22 (consistency under failure): between next() calls, whatever calls
\* failed in get_page during a descent or an ascent, current_page_id is the
\* id of the page held in current_page, and parent_pages holds no more
\* entries than the page held has ancestors (a failed descent has left no
\* extra entry).
C22_ConsistentUnderFailure ==
  cpc = "idle" =>
    /\ current_page_id = current_page
    /\ Len(parent_pages) <= Len(Ancestors(current_page))


(***************************************************************************)
(* The copies and the termination of load, checked under SpecLoad.         *)
(***************************************************************************)
\* the step that runs lines 60-83: the range check passed, the local copy
LocalCopyStep == lpc = "idle" /\ lpc' = "loop"

\* a step that runs the body of the overflow loop to its end (lines 85-106)
BodyStep == lpc = "loop" /\ lpc' = "loop" /\ fetched' # fetched

\* the bytes a step has copied
CopiedNow == n_loaded' - n_loaded

\* C23 (copy bounds in load): whenever the body of the overflow loop runs,
\* cur <= offset, so offset - cur does not underflow, and when a copy is made
\* local_offset < the segment's length; every copy, local or overflow,
\* transfers n bytes with n <= the room left in the destination and n <= the
\* bytes left in the source segment, no byte is read past the end of a
\* segment, and n_loaded never exceeds dst.len.
C23_CopyBounds ==
  /\ []((lpc = "loop" /\ LoopContinues(buf_len, cur, size)) => cur <= offset)
  /\ [](/\ n_loaded <= Len(dst)
        /\ buf_len >= 0
        /\ n_loaded + buf_len = Len(dst)
        /\ \A i \in 1..Len(dst) : dst[i] # PastEnd)
  /\ [][LocalCopyStep =>
          /\ CopiedNow >= 0
          /\ CopiedNow <= buf_len
          /\ CopiedNow <= Max(Len(local) - arg_offset, 0)
          /\ buf_len' = buf_len - CopiedNow]_vars
  /\ [][BodyStep =>
          LET seglen == Len(ovf[ov].payload)
          IN /\ CopiedNow >= 0
             /\ CopiedNow <= buf_len
             /\ buf_len' = buf_len - CopiedNow
             /\ IF InSegment(offset, cur, seglen)
                THEN /\ offset - cur >= 0
                     /\ offset - cur < seglen
                     /\ CopiedNow <= seglen - (offset - cur)
                ELSE CopiedNow = 0]_vars

\* a window that starts inside the first overflow page and ends, the buffer
\* full, inside a later one
C23_Witness ==
  /\ lpc = "done" /\ result.tag = "Ok"
  /\ Len(local) >= 1
  /\ arg_offset > Len(local)
  /\ Len(fetched) >= 2
  /\ n_loaded = Len(dst) /\ n_loaded >= 2
  /\ arg_offset + n_loaded < cur


\* every overflow page fetched so far reported at least one payload byte
NoEmptyFetch ==
  \A i \in 1..Len(fetched) : Len(ovf[fetched[i]].payload) >= 1

\* C24 (load terminates): as long as every fetched overflow page reports at
\* least one payload byte, load has asked for at most size - local_bytes.len
\* overflow pages, and the call ends, with Ok or Err, even on a cyclic chain
\* or one longer than size implies.
C24_LoadTerminates ==
  /\ [](NoEmptyFetch => Len(fetched) <= size - Len(local))
  /\ <>(lpc = "done" \/ ~NoEmptyFetch)

\* a chain that loops back on itself, walked round more than once, until the
\* payload's size is reached
C24_Witness ==
  /\ lpc = "done" /\ result.tag = "Ok"
  /\ NoEmptyFetch
  /\ Len(ovf) >= 1 /\ ovf[Len(ovf)].next # NoPage
  /\ Len(fetched) > Len(ovf)
  /\ Len(fetched) = size - Len(local)

=============================================================================
